---- MODULE Spec2Model ----
(***************************************************************************)
(* Habit ledger of the Telegram habit tracker (src/main.py).                *)
(*                                                                          *)
(* State: the MongoDB collection users_collection (one document per user,   *)
(* in insertion order), the wall clock, the local variables and position of *)
(* each handler call (handle_message, check_progress), and the position of  *)
(* the review job send_reminder.  The external collaborators (oracle,      *)
(* object storage, chat transport) are nondeterministic: every outcome the  *)
(* code can observe from them is drawn from a small set.                    *)
(***************************************************************************)
EXTENDS Integers, Sequences, FiniteSets, TLC

(***************************************************************************)
(* Bounds of the model.                                                     *)
(***************************************************************************)
\* number of inbound messages handled in one behaviour
MaxMsgs == 2
\* events a ledger holds beyond the evidence window of the review job
MaxExtra == 2

(***************************************************************************)
(* Strings are sequences of one-character strings.                          *)
(***************************************************************************)
s_run == <<"r", "u", "n">>
s_Runs == <<"R", "u", "n", "s">>
s_ru == <<"r", "u">>

\* the texts a user sends and the habit labels the oracle returns
Names == {s_run, s_Runs, s_ru}

\* str.lower() on the alphabet of Names
lower(s) == [i \in DOMAIN s |-> IF s[i] = "R" THEN "r" ELSE s[i]]

Min(x, y) == IF x < y THEN x ELSE y

\* length of the common run of a starting at offset i (below ahi) and of b
\* starting at offset j (below bhi); offsets are 0-based as in difflib
RECURSIVE MatchLen(_, _, _, _, _, _)
MatchLen(a, b, i, j, ahi, bhi) ==
    IF i < ahi /\ j < bhi /\ a[i + 1] = b[j + 1]
    THEN 1 + MatchLen(a, b, i + 1, j + 1, ahi, bhi)
    ELSE 0

\* SequenceMatcher.find_longest_match without junk: the longest block, of
\* those the one starting earliest in a, of those the earliest in b
find_longest_match(a, b, alo, ahi, blo, bhi) ==
    LET Cands == {<<i, j>> \in (alo .. ahi - 1) \X (blo .. bhi - 1) : TRUE}
        K(c) == MatchLen(a, b, c[1], c[2], ahi, bhi)
        Best(c) == \A d \in Cands :
                      \/ K(d) < K(c)
                      \/ K(d) = K(c) /\ (c[1] < d[1] \/ (c[1] = d[1] /\ c[2] <= d[2]))
    IN IF Cands = {} THEN <<alo, blo, 0>>
       ELSE LET c == CHOOSE c \in Cands : Best(c)
            IN IF K(c) = 0 THEN <<alo, blo, 0>> ELSE <<c[1], c[2], K(c)>>

\* SequenceMatcher.get_matching_blocks: total size of the matching blocks,
\* found by recursing to the left and to the right of the longest block
RECURSIVE matching_size(_, _, _, _, _, _)
matching_size(a, b, alo, ahi, blo, bhi) ==
    LET m == find_longest_match(a, b, alo, ahi, blo, bhi)
    IN IF m[3] = 0 THEN 0
       ELSE m[3]
            + matching_size(a, b, alo, m[1], blo, m[2])
            + matching_size(a, b, m[1] + m[3], ahi, m[2] + m[3], bhi)

\* similar(a, b) = SequenceMatcher(None, a, b).ratio() = 2.0 * M / T, and 1.0
\* when both strings are empty; the ratio is kept as the fraction <<num, den>>
similar(a, b) ==
    IF Len(a) + Len(b) = 0 THEN <<1, 1>>
    ELSE <<2 * matching_size(a, b, 0, Len(a), 0, Len(b)), Len(a) + Len(b)>>

\* the similarity threshold 0.8 = 4/5 of handle_message
ThresholdNum == 4
ThresholdDen == 5

\* the test "similar(x, y) > 0.8" of handle_message
above_threshold(r) == r[1] * ThresholdDen > ThresholdNum * r[2]

\* tries of the retry decorator on process_with_openai
RetryTries == 3
\* a photo verdict is accepted when its points are above this value
RejectThreshold == -10

Users == {1, 2}
Handlers == {1}

\* the points the oracle puts in a photo verdict
Points == {-10, -9, 3}
\* the type the oracle puts in a text verdict
Types == {"journal_entry", "new_habit", "chat_message"}

\* the parsed verdicts of the oracle; a field may be missing
PhotoVerdicts ==
    [habit : Names, points : Points, message : {"m"}] \cup [habit : Names, message : {"m"}]
TextVerdicts == [type : Types, message : {"m"}] \cup [message : {"m"}]
\* the exceptions one attempt of the oracle call can end with: the transport
\* or HTTP status fails, or the body is not JSON
OracleErrors == [exc : {"RequestException", "JSONDecodeError"}]

\* what the oracle answers to the prompt of check_progress: a report with or
\* without entries, or an object without the field
ReportVerdicts ==
    {[progress_report |-> r] :
        r \in {<<>>, <<[habit |-> s_run, progress |-> "p", suggestions |-> "s"]>>}}
    \cup {[note |-> "n"]}

\* Python's None is the empty sequence, a value v is <<v>>
None == <<>>
Some(v) == <<v>>

VARIABLES
    users_collection,  \* the documents of the collection, in insertion order
    clock,             \* datetime.now(), one tick per handled message
    hm,                \* hm[t]: position, locals and effects of one handler call
    rem                \* position, cursor and effects of the running send_reminder

vars == <<users_collection, clock, hm, rem>>

\* the locals of a handler (handle_message or check_progress) before its call
Fresh ==
    [pc |-> "idle", cmd |-> "none", user_id |-> 0, text |-> None, photo |-> FALSE, user |-> None,
     attempts |-> 0, response |-> None, score |-> 0, user_habits |-> None,
     existing_habit |-> None, out |-> <<>>, raised |-> "none"]

\* send_reminder before the scheduler runs it
FreshRem == [pc |-> "idle", queue |-> <<>>, evaluated |-> <<>>, out |-> <<>>, raised |-> "none"]

\* The collection outlives the process.  The process starts on an empty
\* collection or on one an earlier run left: user 1 declared the habits "Runs"
\* and "run" by two text messages (two runs of the add_habit branch of Dispatch).
SeedHabit(name) == [name |-> name, type |-> "general", points |-> 0, last_activity |-> 0]
SeedCollection ==
    <<[user_id |-> 1, habits |-> <<SeedHabit(s_Runs), SeedHabit(s_run)>>, events |-> <<>>,
       journal_entries |-> <<>>, last_activity |-> 0]>>

Init ==
    /\ users_collection \in {<<>>, SeedCollection}
    /\ clock = 0
    /\ hm = [t \in Handlers |-> Fresh]
    /\ rem = FreshRem

----------------------------------------------------------------------------
(***************************************************************************)
(* The document store.                                                      *)
(***************************************************************************)
\* position of the first document of user u, 0 when there is none
FindIdx(coll, u) ==
    IF \E i \in DOMAIN coll : coll[i].user_id = u
    THEN CHOOSE i \in DOMAIN coll :
            coll[i].user_id = u /\ \A j \in 1 .. i - 1 : coll[j].user_id # u
    ELSE 0

\* users_collection.find_one({"user_id": u})
find_one(coll, u) == IF FindIdx(coll, u) = 0 THEN None ELSE Some(coll[FindIdx(coll, u)])

\* the document inserted for a user seen for the first time
NewUser(u, now) ==
    [user_id |-> u, habits |-> <<>>, events |-> <<>>, journal_entries |-> <<>>,
     last_activity |-> now]

\* user.get("habits", []) and the like on an optional document
HabitsOf(coll, u) == IF FindIdx(coll, u) = 0 THEN <<>> ELSE coll[FindIdx(coll, u)].habits
EventsOf(coll, u) == IF FindIdx(coll, u) = 0 THEN <<>> ELSE coll[FindIdx(coll, u)].events
JournalOf(coll, u) ==
    IF FindIdx(coll, u) = 0 THEN <<>> ELSE coll[FindIdx(coll, u)].journal_entries

\* $addToSet: append unless an equal element is there
AddToSet(seq, x) == IF \E i \in DOMAIN seq : seq[i] = x THEN seq ELSE Append(seq, x)

\* the element the positional operator $ selects for the query habits.name = name
PositionOf(habits, name) ==
    IF \E i \in DOMAIN habits : habits[i].name = name
    THEN CHOOSE i \in DOMAIN habits :
            habits[i].name = name /\ \A j \in 1 .. i - 1 : habits[j].name # name
    ELSE 0

\* the bug of leaving the loop without break: the last similar habit wins
first_similar_last(habits, label) ==
    IF \E i \in DOMAIN habits : above_threshold(similar(lower(habits[i].name), lower(label)))
    THEN Some(habits[CHOOSE i \in DOMAIN habits :
                 /\ above_threshold(similar(lower(habits[i].name), lower(label)))
                 /\ \A j \in i + 1 .. Len(habits) :
                       ~above_threshold(similar(lower(habits[j].name), lower(label)))])
    ELSE None

\* the loop over user_habits: the first habit whose lowered name is similar to
\* the lowered label, None when there is none
first_similar(habits, label) ==
    IF \E i \in DOMAIN habits : above_threshold(similar(lower(habits[i].name), lower(label)))
    THEN Some(habits[CHOOSE i \in DOMAIN habits :
                 /\ above_threshold(similar(lower(habits[i].name), lower(label)))
                 /\ \A j \in 1 .. i - 1 :
                       ~above_threshold(similar(lower(habits[j].name), lower(label)))])
    ELSE None

extract_score_from_response(response) ==
    IF "points" \in DOMAIN response THEN response.points ELSE 0

\* the event both photo branches push
PhotoEvent(response, score, now) ==
    [type |-> "photo", timestamp |-> now, response |-> response, score |-> score,
     habit_type |-> "photo"]

\* the bug of writing the score over the points instead of adding it
UpdateExistingHabit_set(doc, name, response, score, now) ==
    [doc EXCEPT !.habits[PositionOf(doc.habits, name)].points = score,
                !.last_activity = now,
                !.events = Append(@, PhotoEvent(response, score, now))]

\* the bug of writing back the points the handler read in its loop plus the
\* score, instead of letting the store increment
UpdateExistingHabit_stale(doc, name, response, score, now) ==
    LET reader == CHOOSE t \in DOMAIN hm :
                     /\ hm[t].pc = "photo_write"
                     /\ hm[t].existing_habit # None
                     /\ hm[t].existing_habit[1].name = name
                     /\ hm[t].response = Some(response)
    IN [doc EXCEPT !.habits[PositionOf(doc.habits, name)].points =
                       hm[reader].existing_habit[1].points + score,
                   !.last_activity = now,
                   !.events = Append(@, PhotoEvent(response, score, now))]

\* update_one of the branch "habit exists": $inc, $set and $push on one document
UpdateExistingHabit(doc, name, response, score, now) ==
    [doc EXCEPT !.habits[PositionOf(doc.habits, name)].points = @ + score,
                !.last_activity = now,
                !.events = Append(@, PhotoEvent(response, score, now))]

\* the bug of creating the habit of a photo with no points, as the text path does
UpdateNewHabit_zero_points(doc, response, score, now) ==
    [doc EXCEPT !.habits = AddToSet(@, [name |-> response.habit, points |-> 0,
                                        last_activity |-> now]),
                !.events = Append(@, PhotoEvent(response, score, now))]

\* the bug of adding the habit in one update and pushing the event in another
UpdateNewHabit_no_push(doc, response, score, now) ==
    [doc EXCEPT !.habits = AddToSet(@, [name |-> response.habit, points |-> score,
                                        last_activity |-> now])]

\* update_one of the branch "habit does not exist": $addToSet and $push
UpdateNewHabit(doc, response, score, now) ==
    [doc EXCEPT !.habits = AddToSet(@, [name |-> response.habit, points |-> score,
                                        last_activity |-> now]),
                !.events = Append(@, PhotoEvent(response, score, now))]

\* the bug of leaving last_activity out of the update
UpdateJournal_no_activity(doc, text, now) ==
    [doc EXCEPT !.journal_entries = Append(@, [entry |-> text, timestamp |-> now])]

\* the bug of writing the journal with $set instead of $push
UpdateJournal_set(doc, text, now) ==
    [doc EXCEPT !.journal_entries = <<[entry |-> text, timestamp |-> now]>>,
                !.last_activity = now]

\* update_one of the branch journal_entry: $push and $set
UpdateJournal(doc, text, now) ==
    [doc EXCEPT !.journal_entries = Append(@, [entry |-> text, timestamp |-> now]),
                !.last_activity = now]

\* update_one of the branch new_habit with a similar habit: $set on the
\* matched element ($setOnInsert applies to inserted documents only)
UpdateRenameHabit(doc, name, text, now) ==
    [doc EXCEPT !.habits[PositionOf(doc.habits, name)] =
                    [@ EXCEPT !.name = text, !.last_activity = now]]

\* update_one of the branch new_habit without a similar habit: $addToSet, $set
UpdateAddHabit(doc, text, now) ==
    [doc EXCEPT !.habits = AddToSet(@, [name |-> text, type |-> "general", points |-> 0,
                                        last_activity |-> now]),
                !.last_activity = now]

----------------------------------------------------------------------------
(***************************************************************************)
(* handle_message, one action per step between two external calls.          *)
(***************************************************************************)
Step(t, rec) == hm' = [hm EXCEPT ![t] = rec]

\* the handler ends with an exception: the dispatcher logs it, nothing more
Raise(t, exc) == Step(t, [hm[t] EXCEPT !.pc = "done", !.raised = exc])

\* lines 72-98: the message arrives, the user document is created if absent
Receive(t, u, isPhoto, txt) ==
    /\ hm[t].pc \in {"idle", "done"}
    /\ rem.pc # "running"
    /\ clock < MaxMsgs
    /\ clock' = clock + 1
    /\ users_collection' =
          IF FindIdx(users_collection, u) = 0
          THEN Append(users_collection, NewUser(u, clock'))
          ELSE users_collection
    /\ Step(t, [Fresh EXCEPT !.pc = IF isPhoto THEN "upload" ELSE "oracle",
                             !.cmd = "handle_message",
                             !.user_id = u,
                             !.text = IF isPhoto THEN None ELSE Some(txt),
                             !.photo = isPhoto,
                             !.user = find_one(users_collection, u)])
    /\ rem' = FreshRem

\* lines 100-108: download the photo and put it in object storage
Upload(t, ok) ==
    /\ hm[t].pc = "upload"
    /\ IF ok THEN Step(t, [hm[t] EXCEPT !.pc = "oracle"]) ELSE Raise(t, "S3Error")
    /\ UNCHANGED <<users_collection, clock, rem>>

\* the verdicts the oracle can give to the prompt of the call at hand
VerdictsFor(h) ==
    IF h.cmd = "check_progress" THEN ReportVerdicts
    ELSE IF h.photo THEN PhotoVerdicts ELSE TextVerdicts

\* where the caller continues with the verdict
AfterOracle(h) ==
    IF h.cmd = "check_progress" THEN "report"
    ELSE IF h.photo THEN "photo_check" ELSE "dispatch"

\* the decorator gives up after one attempt more than the budget
exhausted_late(attempts) == attempts > RetryTries

\* line 325, retry(tries=3): the decorator re-raises when no attempt is left
exhausted(attempts) == attempts >= RetryTries

\* lines 325-386 under @retry(tries=3): one attempt of process_with_openai.
\* outcome is the exception of the attempt or the parsed verdict
OracleAttempt(t, outcome) ==
    /\ hm[t].pc = "oracle"
    /\ outcome \in OracleErrors \cup VerdictsFor(hm[t])
    /\ IF outcome \in OracleErrors
       THEN IF exhausted(hm[t].attempts + 1)
            THEN Step(t, [hm[t] EXCEPT !.attempts = @ + 1, !.pc = "done",
                                       !.raised = outcome.exc])
            ELSE Step(t, [hm[t] EXCEPT !.attempts = @ + 1])
       \* the attempt counter lives in the decorator's frame and ends with it
       ELSE Step(t, [hm[t] EXCEPT !.attempts = 0,
                                  !.response = Some(outcome),
                                  !.score = extract_score_from_response(outcome),
                                  !.pc = AfterOracle(hm[t])])
    /\ UNCHANGED <<users_collection, clock, rem>>

\* the bug of accepting a verdict at the threshold
accepted_ge(response) == response.points >= RejectThreshold

\* line 134: the accept test on the verdict's points
accepted(response) == response.points > RejectThreshold

\* lines 134-145 and 201-204: the accept test, then the match against the
\* user's habits, or the rejection reply
PhotoCheck(t) ==
    /\ hm[t].pc = "photo_check"
    /\ LET response == hm[t].response[1]
           habits == HabitsOf(users_collection, hm[t].user_id)
       IN IF "points" \notin DOMAIN response
          THEN Raise(t, "KeyError")
          ELSE IF accepted(response)
          THEN Step(t, [hm[t] EXCEPT !.user_habits = Some(habits),
                                     !.existing_habit = first_similar(habits, response.habit),
                                     !.pc = "photo_write"])
          ELSE Step(t, [hm[t] EXCEPT !.out = Append(@, [kind |-> "reply", what |-> "rejected",
                                                        message |-> response.message]),
                                     !.pc = "done"])
    /\ UNCHANGED <<users_collection, clock, rem>>

\* the document update_one writes for the filter user_id = u and, when name is
\* given, habits.name = name; 0 when no document matches
MatchIdx(coll, u, name) ==
    IF \E i \in DOMAIN coll :
          coll[i].user_id = u /\ PositionOf(coll[i].habits, name) # 0
    THEN CHOOSE i \in DOMAIN coll :
            /\ coll[i].user_id = u /\ PositionOf(coll[i].habits, name) # 0
            /\ \A j \in 1 .. i - 1 :
                  ~(coll[j].user_id = u /\ PositionOf(coll[j].habits, name) # 0)
    ELSE 0

\* lines 147-189: the single update_one of an accepted photo
PhotoWrite(t) ==
    /\ hm[t].pc = "photo_write"
    /\ LET u == hm[t].user_id
           response == hm[t].response[1]
           score == hm[t].score
       IN IF hm[t].existing_habit # None
          THEN LET name == hm[t].existing_habit[1].name
                   i == MatchIdx(users_collection, u, name)
               IN IF i = 0
                  \* an upsert cannot apply the positional operator
                  THEN /\ Raise(t, "WriteError")
                       /\ UNCHANGED users_collection
                  ELSE /\ users_collection' =
                             [users_collection EXCEPT ![i] =
                                 UpdateExistingHabit(@, name, response, score, clock)]
                       /\ Step(t, [hm[t] EXCEPT !.pc = "webhook"])
          ELSE LET i == FindIdx(users_collection, u)
               IN /\ users_collection' =
                        IF i = 0
                        \* upsert: the document is made of the filter and the update
                        THEN Append(users_collection,
                                    UpdateNewHabit([user_id |-> u, habits |-> <<>>,
                                                    events |-> <<>>],
                                                   response, score, clock))
                        ELSE [users_collection EXCEPT ![i] =
                                 UpdateNewHabit(@, response, score, clock)]
                  /\ Step(t, [hm[t] EXCEPT !.pc = "webhook"])
    /\ UNCHANGED <<clock, rem>>

\* send_webhook, lines 482-493.  Without WEBHOOK_URL in the environment it
\* logs and returns.  With it, requests.post(json=data) serialises the user
\* document, whose _id and timestamps json cannot encode: the TypeError is
\* not a RequestException, so it leaves send_webhook and the handler
send_webhook_raises(url_set) == url_set

\* the bug of sending the reply behind the summary: the handler goes to the
\* summary without having replied
WebhookReply_late(t, url_set) ==
    /\ hm[t].pc = "webhook"
    /\ IF send_webhook_raises(url_set)
       THEN Raise(t, "TypeError")
       ELSE Step(t, [hm[t] EXCEPT !.pc = "pin"])
    /\ UNCHANGED <<users_collection, clock, rem>>

\* lines 191-197: the webhook, then the reply; url_set is the environment
WebhookReply(t, url_set) ==
    /\ hm[t].pc = "webhook"
    /\ IF send_webhook_raises(url_set)
       THEN Raise(t, "TypeError")
       ELSE Step(t, [hm[t] EXCEPT !.out = Append(@, [kind |-> "reply", what |-> "evidence",
                                                     score |-> hm[t].score,
                                                     message |-> hm[t].response[1].message]),
                                  !.pc = "pin"])
    /\ UNCHANGED <<users_collection, clock, rem>>

RECURSIVE SumPoints(_)
SumPoints(habits) ==
    IF habits = <<>> THEN 0 ELSE habits[1].points + SumPoints(Tail(habits))

\* the text update_pinned_message builds: one line per habit and the total
SummaryText(habits) ==
    [kind |-> "summary",
     lines |-> [i \in DOMAIN habits |-> <<habits[i].name, habits[i].points>>],
     total |-> SumPoints(habits)]

\* update_pinned_message, lines 297-317: send the summary, then pin it;
\* outcome says which call of the chat transport fails, if any
update_pinned_message(t, outcome) ==
    /\ hm[t].pc = "pin"
    /\ outcome \in {"ok", "send_failed", "pin_failed"}
    /\ LET summary == SummaryText(HabitsOf(users_collection, hm[t].user_id))
       IN CASE outcome = "ok" ->
                  Step(t, [hm[t] EXCEPT !.out = @ \o <<summary, [kind |-> "pin"]>>,
                                        !.pc = "done"])
            [] outcome = "send_failed" -> Raise(t, "TelegramError")
            [] outcome = "pin_failed" ->
                  Step(t, [hm[t] EXCEPT !.out = Append(@, summary), !.pc = "done",
                                        !.raised = "TelegramError"])
    /\ UNCHANGED <<users_collection, clock, rem>>

\* lines 235-242: user_habits is still None on the text path, and the loop
\* over it runs only when it holds a non-empty list
similar_habit(user_habits, text) ==
    IF user_habits # None /\ user_habits[1] # <<>>
    THEN first_similar(user_habits[1], text)
    ELSE None

\* the bug of keeping every unclassified text as a journal entry
branch_of_default_journal(type, match) ==
    CASE type = "new_habit" /\ match # None -> "update_habit"
      [] type = "new_habit" /\ match = None -> "add_habit"
      [] OTHER -> "journal_entry"

\* lines 219, 233, 244, 260 and 283: the branch a text verdict selects
branch_of(type, match) ==
    CASE type = "journal_entry" -> "journal_entry"
      [] type = "new_habit" /\ match # None -> "update_habit"
      [] type = "new_habit" /\ match = None -> "add_habit"
      [] OTHER -> "pass"

\* lines 219-284: the branch of a text message on the verdict's type
Dispatch(t) ==
    /\ hm[t].pc = "dispatch"
    /\ LET u == hm[t].user_id
           text == hm[t].text[1]
           response == hm[t].response[1]
           i == FindIdx(users_collection, u)
           match == similar_habit(hm[t].user_habits, text)
           Reply(what) == Step(t, [hm[t] EXCEPT !.out = Append(@, [kind |-> "reply",
                                                                   what |-> what,
                                                                   text |-> text]),
                                                !.pc = "pin"])
       IN IF "type" \notin DOMAIN response
          THEN Raise(t, "KeyError") /\ UNCHANGED users_collection
          ELSE CASE branch_of(response.type, match) = "journal_entry" ->
                      /\ users_collection' =
                            [users_collection EXCEPT ![i] = UpdateJournal(@, text, clock)]
                      /\ Reply("journal")
                 [] branch_of(response.type, match) = "update_habit" ->
                      /\ users_collection' =
                            [users_collection EXCEPT
                                ![MatchIdx(users_collection, u, match[1].name)] =
                                    UpdateRenameHabit(@, match[1].name, text, clock)]
                      /\ Reply("habit_updated")
                 [] branch_of(response.type, match) = "add_habit" ->
                      /\ users_collection' =
                            [users_collection EXCEPT ![i] = UpdateAddHabit(@, text, clock)]
                      /\ Reply("habit_added")
                 [] branch_of(response.type, match) = "pass" ->
                      /\ UNCHANGED users_collection
                      /\ Step(t, [hm[t] EXCEPT !.pc = "pin"])
    /\ UNCHANGED <<clock, rem>>

----------------------------------------------------------------------------
(***************************************************************************)
(* check_progress, the /progress command.                                   *)
(***************************************************************************)
OnboardingReply == [kind |-> "reply", what |-> "onboarding", message |-> None]

\* lines 441-466: look the user up; an absent user is created and told to add
\* a habit; any user found goes on to the oracle call of line 467
CheckProgress(t, u) ==
    /\ hm[t].pc \in {"idle", "done"}
    /\ rem.pc # "running"
    /\ clock < MaxMsgs
    /\ clock' = clock + 1
    /\ IF FindIdx(users_collection, u) = 0
       THEN /\ users_collection' = Append(users_collection, NewUser(u, clock'))
            /\ Step(t, [Fresh EXCEPT !.pc = "done", !.cmd = "check_progress",
                                     !.user_id = u, !.out = <<OnboardingReply>>])
       ELSE /\ users_collection' = users_collection
            /\ Step(t, [Fresh EXCEPT !.pc = "oracle", !.cmd = "check_progress",
                                     !.user_id = u,
                                     !.user = find_one(users_collection, u)])
    /\ rem' = FreshRem

\* lines 469-479: reply with the report, or that there is none
ProgressReport(t) ==
    /\ hm[t].pc = "report"
    /\ LET response == hm[t].response[1]
           progress_report == IF "progress_report" \in DOMAIN response
                              THEN response.progress_report ELSE <<>>
       IN Step(t, [hm[t] EXCEPT
                     !.out = Append(@, [kind |-> "reply",
                                        what |-> IF progress_report = <<>>
                                                 THEN "no_report" ELSE "report",
                                        message |-> progress_report]),
                     !.pc = "done"])
    /\ UNCHANGED <<users_collection, clock, rem>>

(***************************************************************************)
(* send_reminder, the review job: one action for the cursor, one per user.  *)
(* The job writes nothing to the collection; it runs here between two       *)
(* messages, the schedule on which its reads see one state of the ledger.   *)
(***************************************************************************)
\* the slice [:20] of line 404
WindowSize == 20

\* e["habit_name"] raises KeyError on an event without that key
filter_raises(events) == \E i \in DOMAIN events : "habit_name" \notin DOMAIN events[i]

RECURSIVE filter_by_habit(_, _)
filter_by_habit(events, habit_name) ==
    IF events = <<>> THEN <<>>
    ELSE IF Head(events).habit_name = habit_name
         THEN <<Head(events)>> \o filter_by_habit(Tail(events), habit_name)
         ELSE filter_by_habit(Tail(events), habit_name)

\* lines 403-405: the events of the habit, then the slice [:20]
last_30_evidences(events, habit_name) ==
    SubSeq(filter_by_habit(events, habit_name), 1,
           Min(WindowSize, Len(filter_by_habit(events, habit_name))))

\* what the verdict of one habit says: is_on_track true, false, or no such field
OnTrackOutcomes == {"on", "off", "absent"}

\* lines 414-420: the names of the habits whose verdict is not on track
RECURSIVE habits_not_on_track(_, _)
habits_not_on_track(habits, verdicts) ==
    IF habits = <<>> THEN <<>>
    ELSE (IF Head(verdicts) \in {"off", "absent"} THEN <<Head(habits).name>> ELSE <<>>)
         \o habits_not_on_track(Tail(habits), Tail(verdicts))

\* line 390: users_collection.find() opens the cursor
ReviewStart ==
    /\ rem.pc \in {"idle", "done"}
    /\ \A t \in DOMAIN hm : hm[t].pc \in {"idle", "done"}
    /\ rem' = [FreshRem EXCEPT !.pc = IF users_collection = <<>> THEN "done" ELSE "running",
                               !.queue = users_collection]
    /\ hm' = [t \in DOMAIN hm |-> Fresh]
    /\ UNCHANGED <<users_collection, clock>>

\* the job ends with an exception: the scheduler logs it, the users left in
\* the cursor are not visited
ReviewRaise(exc, out) == rem' = [rem EXCEPT !.pc = "done", !.raised = exc, !.out = out]

\* lines 391-438: the body of the loop for the next user of the cursor.
\* Either an oracle call of the user (one per habit, one for the reminder
\* text) fails on its last retry, or every habit i gets the verdict
\* verdicts[i] and delivery is the outcome of the sends that follow
ReviewUser ==
    /\ rem.pc = "running"
    /\ LET user == Head(rem.queue)
           habits == user.habits
           summary == SummaryText(HabitsOf(users_collection, user.user_id))
           \* the cursor moves on; evaluated notes the user, the evidence window
           \* put into the prompt of each habit, and the off-track list
           Visited(off) ==
               [rem EXCEPT !.queue = Tail(@),
                           !.evaluated = Append(@, [user_id |-> user.user_id, off |-> off,
                                                    windows |-> [i \in DOMAIN habits |->
                                                       last_30_evidences(user.events,
                                                                         habits[i].name)]]),
                           !.pc = IF Tail(rem.queue) = <<>> THEN "done" ELSE "running"]
       IN IF habits # <<>> /\ filter_raises(user.events)
          THEN ReviewRaise("KeyError", rem.out)
          ELSE \/ /\ habits # <<>>
                  /\ ReviewRaise("RequestException", rem.out)
               \/ \E verdicts \in [DOMAIN habits -> OnTrackOutcomes] :
                     LET off == habits_not_on_track(habits, verdicts)
                         reminder == [kind |-> "reminder", to |-> user.user_id,
                                      habits |-> off]
                     IN IF off = <<>>
                        THEN rem' = Visited(off)
                        ELSE \E delivery \in {"ok", "reminder_failed", "send_failed",
                                              "pin_failed"} :
                               CASE delivery = "reminder_failed" ->
                                      ReviewRaise("TelegramError", rem.out)
                                 [] delivery = "send_failed" ->
                                      ReviewRaise("TelegramError", Append(rem.out, reminder))
                                 [] delivery = "pin_failed" ->
                                      ReviewRaise("TelegramError",
                                                  rem.out \o <<reminder, summary>>)
                                 [] delivery = "ok" ->
                                      rem' = [Visited(off) EXCEPT !.out =
                                                 @ \o <<reminder, summary, [kind |-> "pin"]>>]
    /\ UNCHANGED <<users_collection, clock, hm>>

----------------------------------------------------------------------------
Next ==
    \/ \E t \in Handlers, u \in Users : Receive(t, u, TRUE, <<>>)
    \/ \E t \in Handlers, u \in Users, txt \in Names : Receive(t, u, FALSE, txt)
    \/ \E t \in Handlers, ok \in BOOLEAN : Upload(t, ok)
    \/ \E t \in Handlers,
          outcome \in OracleErrors \cup PhotoVerdicts \cup TextVerdicts \cup ReportVerdicts :
          OracleAttempt(t, outcome)
    \/ \E t \in Handlers : PhotoCheck(t)
    \/ \E t \in Handlers : PhotoWrite(t)
    \/ \E t \in Handlers, url_set \in BOOLEAN : WebhookReply(t, url_set)
    \/ \E t \in Handlers : Dispatch(t)
    \/ \E t \in Handlers, outcome \in {"ok", "send_failed", "pin_failed"} :
          update_pinned_message(t, outcome)
    \/ \E t \in Handlers, u \in Users : CheckProgress(t, u)
    \/ \E t \in Handlers : ProgressReport(t)
    \/ ReviewStart
    \/ ReviewUser

Spec == Init /\ [][Next]_vars

----------------------------------------------------------------------------
(***************************************************************************)
(* The evidence window on its own.  handle_message writes no habit_name     *)
(* into its events, so on its ledgers line 403 raises before it slices.     *)
(* Here the window is computed on the ledgers it is written for: one user   *)
(* with two habits whose events carry the habit_name key, all for one habit *)
(* or alternating between the two, up to MaxExtra more than the window.     *)
(***************************************************************************)
NamedEvent(name, k) ==
    [type |-> "photo", timestamp |-> k, response |-> [habit |-> name, points |-> 0,
                                                         message |-> "m"],
     score |-> 0, habit_type |-> "general", habit_name |-> name]

WindowUser(n, alternate) ==
    [user_id |-> 1, habits |-> <<SeedHabit(s_run), SeedHabit(s_ru)>>,
     events |-> [k \in 1 .. n |->
                   NamedEvent(IF alternate /\ k % 2 = 0 THEN s_ru ELSE s_run, k)],
     journal_entries |-> <<>>, last_activity |-> 0]

InitWindow ==
    /\ users_collection \in {<<WindowUser(n, alternate)>> :
                                n \in 0 .. WindowSize + MaxExtra, alternate \in BOOLEAN}
    /\ clock = 0
    /\ hm = [t \in Handlers |-> Fresh]
    /\ rem = FreshRem

NextWindow ==
    \/ ReviewStart
    \/ ReviewUser

SpecWindow == InitWindow /\ [][NextWindow]_vars

(***************************************************************************)
(* Two photos of one user handled at the same time.  Each handler is one    *)
(* run of handle_message for a photo of user 1, who has the habits of the   *)
(* seed; the steps of the two runs interleave at their external calls, the  *)
(* reads and the update_one of the store being single steps.                *)
(***************************************************************************)
HandlersConc == {1, 2}

InitConc ==
    /\ users_collection = SeedCollection
    /\ clock = 0
    /\ hm = [t \in HandlersConc |-> Fresh]
    /\ rem = FreshRem

\* lines 72-98 for the one photo a handler is given
ReceiveOnce(t) ==
    /\ hm[t].pc = "idle"
    /\ Receive(t, 1, TRUE, <<>>)

NextConc ==
    \/ \E t \in HandlersConc : ReceiveOnce(t)
    \/ \E t \in HandlersConc, ok \in BOOLEAN : Upload(t, ok)
    \/ \E t \in HandlersConc, outcome \in OracleErrors \cup PhotoVerdicts :
          OracleAttempt(t, outcome)
    \/ \E t \in HandlersConc : PhotoCheck(t)
    \/ \E t \in HandlersConc : PhotoWrite(t)
    \/ \E t \in HandlersConc, url_set \in BOOLEAN : WebhookReply(t, url_set)
    \/ \E t \in HandlersConc, outcome \in {"ok", "send_failed", "pin_failed"} :
          update_pinned_message(t, outcome)

SpecConc == InitConc /\ [][NextConc]_vars

(***************************************************************************)
(* Vocabulary of the properties.                                            *)
(***************************************************************************)
\* the ledger of the handler's user as the handler found it (line 76), and as
\* it is now
HabitsBefore(t) == IF hm[t].user = None THEN <<>> ELSE hm[t].user[1].habits
EventsBefore(t) == IF hm[t].user = None THEN <<>> ELSE hm[t].user[1].events
JournalBefore(t) == IF hm[t].user = None THEN <<>> ELSE hm[t].user[1].journal_entries
HabitsNow(t) == HabitsOf(users_collection, hm[t].user_id)
EventsNow(t) == EventsOf(users_collection, hm[t].user_id)
JournalNow(t) == JournalOf(users_collection, hm[t].user_id)

\* the handler of a photo has passed the accept test and its update_one
PhotoWritten(t) ==
    /\ hm[t].photo
    /\ hm[t].user_habits # None
    /\ hm[t].pc \in {"webhook", "pin", "done"}
    /\ hm[t].raised # "WriteError"

\* the handler of a text has a verdict with a type and has run its branch
TextDispatched(t) ==
    /\ ~hm[t].photo
    /\ hm[t].response # None
    /\ "type" \in DOMAIN hm[t].response[1]
    /\ hm[t].pc \in {"pin", "done"}

\* the two names count as the same habit for the code's test
Matches(name, label) == above_threshold(similar(lower(name), lower(label)))

Replies(out) == {i \in DOMAIN out : out[i].kind = "reply"}

RECURSIVE SumScores(_)
SumScores(events) ==
    IF events = <<>> THEN 0 ELSE events[1].score + SumScores(Tail(events))

\* the events that record name as their habit name
RECURSIVE EventsNamed(_, _)
EventsNamed(events, name) ==
    IF events = <<>> THEN <<>>
    ELSE (IF "habit_name" \in DOMAIN Head(events) /\ Head(events).habit_name = name
          THEN <<Head(events)>> ELSE <<>>) \o EventsNamed(Tail(events), name)

(***************************************************************************)
(* C1.  After an accepted photo, exactly one habit of the user has changed: *)
(* a habit matching the label has its points raised by the score and every  *)
(* other habit is as before, or, when none matches, one habit with the      *)
(* label and the score as points is added; one photo event with that score  *)
(* is appended.                                                             *)
(***************************************************************************)
C1_AcceptedPhotoChangesOneHabit ==
    \A t \in DOMAIN hm :
        PhotoWritten(t) =>
            LET before == HabitsBefore(t)
                after == HabitsNow(t)
                label == hm[t].response[1].habit
                score == hm[t].score
            IN /\ score = hm[t].response[1].points
               /\ Len(EventsNow(t)) = Len(EventsBefore(t)) + 1
               /\ SubSeq(EventsNow(t), 1, Len(EventsBefore(t))) = EventsBefore(t)
               /\ EventsNow(t)[Len(EventsNow(t))].type = "photo"
               /\ EventsNow(t)[Len(EventsNow(t))].score = score
               /\ IF \E i \in DOMAIN before : Matches(before[i].name, label)
                  THEN \E i \in DOMAIN before :
                          /\ Matches(before[i].name, label)
                          /\ after = [before EXCEPT ![i].points = @ + score]
                  ELSE /\ Len(after) = Len(before) + 1
                       /\ SubSeq(after, 1, Len(before)) = before
                       /\ after[Len(after)].name = label
                       /\ after[Len(after)].points = score

\* a photo matched one of two habits and moved its points
C1_Witness ==
    \E t \in DOMAIN hm :
        /\ PhotoWritten(t)
        /\ hm[t].existing_habit # None
        /\ Len(HabitsBefore(t)) >= 2
        /\ hm[t].score # 0
        /\ HabitsNow(t) # HabitsBefore(t)

(***************************************************************************)
(* C2.  A user with no habit sends the same new_habit text twice: after the *)
(* second message the user has exactly one habit.                           *)
(***************************************************************************)
C2_SecondIdenticalHabitNotAdded ==
    \A t \in DOMAIN hm :
        ( /\ TextDispatched(t)
          /\ hm[t].response[1].type = "new_habit"
          \* the ledger the second message found: the one habit the first made
          /\ Len(HabitsBefore(t)) = 1
          /\ "type" \in DOMAIN HabitsBefore(t)[1]
          /\ HabitsBefore(t)[1].name = hm[t].text[1] )
        => Len(HabitsNow(t)) = 1

(***************************************************************************)
(* C3.  A new_habit text similar to a habit of the user renames that habit  *)
(* to the text, keeps its points, adds no habit, and the reply confirms the *)
(* update.  Similar is taken here as the code takes it, a ratio above 0.8,  *)
(* which every reading of "at or above 0.8" includes.                       *)
(***************************************************************************)
C3_SimilarNewHabitRenames ==
    \A t \in DOMAIN hm :
        ( /\ TextDispatched(t)
          /\ hm[t].response[1].type = "new_habit"
          /\ \E i \in DOMAIN HabitsBefore(t) :
                Matches(HabitsBefore(t)[i].name, hm[t].text[1]) )
        => /\ Len(HabitsNow(t)) = Len(HabitsBefore(t))
           /\ \E i \in DOMAIN HabitsBefore(t) :
                 /\ Matches(HabitsBefore(t)[i].name, hm[t].text[1])
                 /\ HabitsNow(t)[i].name = hm[t].text[1]
                 /\ HabitsNow(t)[i].points = HabitsBefore(t)[i].points
           /\ \E k \in Replies(hm[t].out) : hm[t].out[k].what = "habit_updated"

(***************************************************************************)
(* C4.  A photo verdict with points at the reject threshold is rejected:    *)
(* the ledger is as before, the only outbound message is the rejection      *)
(* reply with the verdict's message, there is no summary; with points one   *)
(* above the threshold the update is applied.                               *)
(***************************************************************************)
C4_ThresholdBoundary ==
    \A t \in DOMAIN hm :
        ( /\ hm[t].photo
          /\ hm[t].response # None
          /\ "points" \in DOMAIN hm[t].response[1]
          /\ hm[t].pc \notin {"photo_check", "photo_write"} )
        => /\ hm[t].response[1].points = RejectThreshold =>
                 /\ hm[t].pc = "done" /\ hm[t].raised = "none"
                 /\ HabitsNow(t) = HabitsBefore(t)
                 /\ EventsNow(t) = EventsBefore(t)
                 /\ JournalNow(t) = JournalBefore(t)
                 /\ hm[t].out = <<[kind |-> "reply", what |-> "rejected",
                                   message |-> hm[t].response[1].message]>>
           /\ hm[t].response[1].points = RejectThreshold + 1 =>
                 /\ Len(EventsNow(t)) = Len(EventsBefore(t)) + 1
                 /\ EventsNow(t)[Len(EventsNow(t))].score = RejectThreshold + 1
                 /\ SumPoints(HabitsNow(t)) = SumPoints(HabitsBefore(t)) + RejectThreshold + 1

\* one photo at the threshold has been rejected
C4_Witness ==
    \E t \in DOMAIN hm :
        /\ hm[t].photo /\ hm[t].pc = "done" /\ hm[t].response # None
        /\ "points" \in DOMAIN hm[t].response[1]
        /\ hm[t].response[1].points = RejectThreshold
        /\ HabitsBefore(t) # <<>>

(***************************************************************************)
(* C5.  The points of an accepted photo and its event appear in one step:   *)
(* every step that appends an event to a user's ledger applies that event's *)
(* score to one habit or adds the habit with it, and every step that moves  *)
(* a habit's points or adds a habit made by a photo appends the event.      *)
(***************************************************************************)
PointsApplied(hb, ha, score) ==
    \/ \E i \in DOMAIN hb : ha = [hb EXCEPT ![i].points = @ + score]
    \/ /\ Len(ha) = Len(hb) + 1
       /\ SubSeq(ha, 1, Len(hb)) = hb
       /\ ha[Len(ha)].points = score
       /\ "type" \notin DOMAIN ha[Len(ha)]

PhotoHabitChange(hb, ha) ==
    \/ \E i \in DOMAIN hb \cap DOMAIN ha : ha[i].points # hb[i].points
    \/ \E i \in DOMAIN ha \ DOMAIN hb : "type" \notin DOMAIN ha[i]

C5_StepAtomic ==
    users_collection' # users_collection =>
    \A u \in Users :
        LET hb == HabitsOf(users_collection, u)
            ha == HabitsOf(users_collection', u)
            eb == EventsOf(users_collection, u)
            ea == EventsOf(users_collection', u)
        IN /\ ea # eb =>
                 /\ Len(ea) = Len(eb) + 1
                 /\ SubSeq(ea, 1, Len(eb)) = eb
                 /\ PointsApplied(hb, ha, ea[Len(ea)].score)
           /\ PhotoHabitChange(hb, ha) => ea # eb

C5_PointsAndEventInOneStep == [][C5_StepAtomic]_vars

\* an error ended the handler right after the update that made a new habit
C5_Witness ==
    \E t \in DOMAIN hm :
        /\ PhotoWritten(t)
        /\ hm[t].existing_habit = None
        /\ hm[t].raised = "TypeError"
        /\ Len(EventsNow(t)) = Len(EventsBefore(t)) + 1
        /\ Len(HabitsNow(t)) = Len(HabitsBefore(t)) + 1

(***************************************************************************)
(* C6.  A message whose oracle call failed on every attempt has a reply     *)
(* (the generic error reply): no message but a chat message ends in         *)
(* silence.                                                                 *)
(***************************************************************************)
C6_OracleExhaustionReplied ==
    \A t \in DOMAIN hm :
        (hm[t].pc = "done" /\ hm[t].raised \in {"RequestException", "JSONDecodeError"})
        => Replies(hm[t].out) # {}

(***************************************************************************)
(* C7.  A text whose verdict has a type other than journal_entry and        *)
(* new_habit leaves habits, events and journal entries as they were and     *)
(* sends no reply; the only outbound messages are those of the summary      *)
(* refresh, which is the last step.                                         *)
(***************************************************************************)
C7_ChatMessageIsNoOp ==
    \A t \in DOMAIN hm :
        ( /\ TextDispatched(t)
          /\ hm[t].response[1].type \notin {"journal_entry", "new_habit"} )
        => /\ HabitsNow(t) = HabitsBefore(t)
           /\ EventsNow(t) = EventsBefore(t)
           /\ JournalNow(t) = JournalBefore(t)
           /\ Replies(hm[t].out) = {}
           /\ hm[t].pc = "pin" => hm[t].out = <<>>
           /\ (hm[t].pc = "done" /\ hm[t].raised = "none") =>
                 hm[t].out = <<SummaryText(HabitsNow(t)), [kind |-> "pin"]>>

\* a chat message of a user with habits has been handled to the end
C7_Witness ==
    \E t \in DOMAIN hm :
        /\ TextDispatched(t)
        /\ hm[t].response[1].type = "chat_message"
        /\ hm[t].pc = "done" /\ hm[t].raised = "none"
        /\ HabitsBefore(t) # <<>>

(***************************************************************************)
(* C8.  A review cycle visits every user: a failure while one user is       *)
(* processed leaves no later user with habits unvisited.                    *)
(***************************************************************************)
C8_ReviewIsolatesUsers ==
    rem.pc = "done" => \A k \in 2 .. Len(rem.queue) : rem.queue[k].habits = <<>>

(***************************************************************************)
(* C9.  In a review cycle in which neither the oracle nor the chat          *)
(* transport fails, every user is evaluated, a user with an off-track habit *)
(* gets exactly one reminder that lists all the off-track habits, and a     *)
(* user without one gets none; this includes the users whose habits have    *)
(* recorded evidence.                                                       *)
(***************************************************************************)
RemindersTo(u) == {i \in DOMAIN rem.out : rem.out[i].kind = "reminder" /\ rem.out[i].to = u}

C9_OneReminderPerOffTrackUser ==
    (rem.pc = "done" /\ rem.raised \notin {"RequestException", "TelegramError"}) =>
        /\ rem.raised = "none"
        /\ \A i \in DOMAIN users_collection :
              \E k \in DOMAIN rem.evaluated :
                  LET u == users_collection[i].user_id
                      off == rem.evaluated[k].off
                  IN /\ rem.evaluated[k].user_id = u
                     /\ off = <<>> => RemindersTo(u) = {}
                     /\ off # <<>> =>
                           /\ Cardinality(RemindersTo(u)) = 1
                           /\ \A r \in RemindersTo(u) : rem.out[r].habits = off

(***************************************************************************)
(* C10.  The points of every habit are the sum of the scores of the user's  *)
(* events that record the habit's name.                                     *)
(***************************************************************************)
C10_PointsAreSumOfNamedEvents ==
    \A i \in DOMAIN users_collection :
        \A k \in DOMAIN users_collection[i].habits :
            users_collection[i].habits[k].points =
                SumScores(EventsNamed(users_collection[i].events,
                                      users_collection[i].habits[k].name))

(***************************************************************************)
(* C11.  The events and the journal entries of every user are append-only:  *)
(* every step of handle_message, check_progress and send_reminder leaves    *)
(* every user's document in place and leaves its previous events and        *)
(* journal entries as an unchanged prefix of the new lists.                 *)
(***************************************************************************)
IsPrefix(s, t) == Len(s) <= Len(t) /\ SubSeq(t, 1, Len(s)) = s

C11_StepAppendOnly ==
    users_collection' # users_collection =>
        \A i \in DOMAIN users_collection :
            /\ i \in DOMAIN users_collection'
            /\ users_collection'[i].user_id = users_collection[i].user_id
            /\ IsPrefix(users_collection[i].events, users_collection'[i].events)
            /\ IsPrefix(users_collection[i].journal_entries,
                        users_collection'[i].journal_entries)

C11_LedgerAppendOnly == [][C11_StepAppendOnly]_vars

\* a second entry has been appended behind an earlier one
C11_Witness ==
    \E i \in DOMAIN users_collection :
        \/ Len(users_collection[i].events) >= 2
        \/ Len(users_collection[i].journal_entries) >= 2

(***************************************************************************)
(* C12.  check_progress called by a user without habits, whether the user   *)
(* has no document or a document with an empty habit list, replies with the *)
(* onboarding prompt and makes no oracle call.                              *)
(***************************************************************************)
C12_NoHabitsNoOracle ==
    \A t \in DOMAIN hm :
        (hm[t].cmd = "check_progress" /\ HabitsBefore(t) = <<>>) =>
            /\ hm[t].pc = "done"
            /\ hm[t].attempts = 0
            /\ hm[t].response = None
            /\ hm[t].out = <<OnboardingReply>>

(***************************************************************************)
(* C13.  When the upload of the photo fails, the handler stops before any   *)
(* oracle call, a reply informs the user, and the user's habits and events  *)
(* are as before.                                                           *)
(***************************************************************************)
C13_UploadFailureReplied ==
    \A t \in DOMAIN hm :
        (hm[t].pc = "done" /\ hm[t].raised = "S3Error") =>
            /\ hm[t].attempts = 0
            /\ hm[t].response = None
            /\ HabitsNow(t) = HabitsBefore(t)
            /\ EventsNow(t) = EventsBefore(t)
            /\ Replies(hm[t].out) # {}

(***************************************************************************)
(* C14.  The habit the photo path selects for the verdict's label.          *)
(* As claimed: the habit with the highest case-insensitive ratio to the     *)
(* label when that ratio is at or above 0.8, the first in stored order      *)
(* among equals, and none when no ratio reaches 0.8.                        *)
(* As amended: the first habit in stored order whose case-insensitive ratio *)
(* to the label is strictly above 0.8, whatever the ratios of the habits    *)
(* behind it, and none when no ratio is above 0.8 (exactly 0.8 is no match).*)
(***************************************************************************)
Ratio(name, label) == similar(lower(name), lower(label))
AtLeast(r, q) == r[1] * q[2] >= q[1] * r[2]
ReachesThreshold(r) == AtLeast(r, <<ThresholdNum, ThresholdDen>>)

\* the handler of a photo has run the loop of lines 139-145
Resolved(t) == hm[t].photo /\ hm[t].user_habits # None

C14_BestMatchSelected ==
    \A t \in DOMAIN hm :
        Resolved(t) =>
            LET habits == hm[t].user_habits[1]
                label == hm[t].response[1].habit
                R(k) == Ratio(habits[k].name, label)
            IN IF \A k \in DOMAIN habits : ~ReachesThreshold(R(k))
               THEN hm[t].existing_habit = None
               ELSE \E k \in DOMAIN habits :
                       /\ hm[t].existing_habit = Some(habits[k])
                       /\ ReachesThreshold(R(k))
                       /\ \A j \in DOMAIN habits : AtLeast(R(k), R(j))
                       /\ \A j \in 1 .. k - 1 : ~AtLeast(R(j), R(k))

C14_FirstAboveThresholdSelected ==
    \A t \in DOMAIN hm :
        Resolved(t) =>
            LET habits == hm[t].user_habits[1]
                label == hm[t].response[1].habit
                R(k) == Ratio(habits[k].name, label)
                Above(k) == R(k)[1] * ThresholdDen > ThresholdNum * R(k)[2]
            IN IF \A k \in DOMAIN habits : ~Above(k)
               THEN hm[t].existing_habit = None
               ELSE \E k \in DOMAIN habits :
                       /\ hm[t].existing_habit = Some(habits[k])
                       /\ Above(k)
                       /\ \A j \in 1 .. k - 1 : ~Above(j)

\* two habits are above 0.8 for the label and the better one is the second
C14_Witness ==
    \E t \in DOMAIN hm :
        /\ Resolved(t)
        /\ Len(hm[t].user_habits[1]) >= 2
        /\ hm[t].existing_habit # None
        /\ LET habits == hm[t].user_habits[1]
               label == hm[t].response[1].habit
           IN /\ above_threshold(Ratio(habits[1].name, label))
              /\ above_threshold(Ratio(habits[2].name, label))
              /\ ~AtLeast(Ratio(habits[1].name, label), Ratio(habits[2].name, label))

(***************************************************************************)
(* C15.  One call of process_with_openai makes at most 3 attempts.  While   *)
(* the call runs fewer than 3 attempts have failed; an attempt that         *)
(* succeeds hands its verdict to the caller and ends the call; an attempt   *)
(* that fails, by the transport or by the parse alike, is counted and       *)
(* followed by another one, except the third, whose error is raised to the  *)
(* caller.  Every step of the call ends it or uses up one of the 3          *)
(* attempts, so the call terminates.                                        *)
(***************************************************************************)
C15_StepRetry ==
    \A t \in DOMAIN hm :
        (hm[t].pc = "oracle" /\ hm'[t] # hm[t]) =>
            /\ hm[t].attempts < 3
            /\ hm[t].response = None
            /\ IF hm'[t].response # None
               THEN /\ hm'[t].pc \in {"photo_check", "dispatch", "report"}
                    /\ hm'[t].raised = "none"
               ELSE /\ hm'[t].attempts = hm[t].attempts + 1
                    /\ IF hm'[t].attempts < 3
                       THEN hm'[t].pc = "oracle" /\ hm'[t].raised = "none"
                       ELSE /\ hm'[t].pc = "done"
                            /\ hm'[t].raised \in {"RequestException", "JSONDecodeError"}

C15_AtMostThreeAttempts == [][C15_StepRetry]_vars

\* a call has failed three times, the last time by the parse
C15_Witness ==
    \E t \in DOMAIN hm :
        hm[t].pc = "done" /\ hm[t].attempts = 3 /\ hm[t].raised = "JSONDecodeError"

(***************************************************************************)
(* C16.  The evidence window the review job puts into the prompt of a habit *)
(* is made of the user's events that record the habit's name, and holds the *)
(* most recent 20 of them: the last 20 in insertion order when there are    *)
(* more.                                                                    *)
(***************************************************************************)
LastN(s, n) == SubSeq(s, Len(s) - Min(n, Len(s)) + 1, Len(s))

C17_MissingFieldTolerated ==
    \A t \in DOMAIN hm :
        (hm[t].cmd = "handle_message" /\ hm[t].pc = "done" /\ hm[t].response # None) =>
            /\ (hm[t].photo /\ "points" \notin DOMAIN hm[t].response[1]) =>
                   /\ hm[t].score = 0
                   /\ hm[t].raised # "KeyError"
            /\ (~hm[t].photo /\ "type" \notin DOMAIN hm[t].response[1]) =>
                   /\ hm[t].raised # "KeyError"
                   /\ HabitsNow(t) = HabitsBefore(t)
                   /\ EventsNow(t) = EventsBefore(t)
                   /\ JournalNow(t) = JournalBefore(t)

(***************************************************************************)
(* C18.  Two accepted photos of one user that resolve to the same existing  *)
(* habit, their reads, matches and writes interleaved in any order, lose no *)
(* update: once both have written, the habit's points are its initial       *)
(* points plus both scores and both events are in the events list behind    *)
(* the initial ones.                                                        *)
(***************************************************************************)
\* both handlers have written for the same user and the same existing habit
BothWritten(t1, t2) ==
    /\ t1 # t2
    /\ PhotoWritten(t1) /\ PhotoWritten(t2)
    /\ hm[t1].user_id = hm[t2].user_id
    /\ hm[t1].existing_habit # None /\ hm[t2].existing_habit # None
    /\ hm[t1].existing_habit[1].name = hm[t2].existing_habit[1].name

C18_NoLostUpdate ==
    \A t1, t2 \in DOMAIN hm :
        BothWritten(t1, t2) =>
            LET name == hm[t1].existing_habit[1].name
                first == IF Len(EventsBefore(t1)) <= Len(EventsBefore(t2)) THEN t1 ELSE t2
                habits0 == HabitsBefore(first)
                events0 == EventsBefore(first)
                n == Len(events0)
            IN /\ HabitsNow(t1)[PositionOf(HabitsNow(t1), name)].points =
                      habits0[PositionOf(habits0, name)].points + hm[t1].score + hm[t2].score
               /\ Len(EventsNow(t1)) = n + 2
               /\ SubSeq(EventsNow(t1), 1, n) = events0
               /\ \E i, j \in {n + 1, n + 2} :
                     /\ i # j
                     /\ EventsNow(t1)[i].score = hm[t1].score
                     /\ EventsNow(t1)[i].response = hm[t1].response[1]
                     /\ EventsNow(t1)[j].score = hm[t2].score
                     /\ EventsNow(t1)[j].response = hm[t2].response[1]

\* both handlers read the habit before either wrote, with scores that differ
C18_Witness ==
    \E t1, t2 \in DOMAIN hm :
        /\ BothWritten(t1, t2)
        /\ hm[t1].existing_habit = hm[t2].existing_habit
        /\ hm[t1].score # 0 /\ hm[t2].score # 0 /\ hm[t1].score # hm[t2].score

(***************************************************************************)
(* C19.  A text the oracle classifies journal_entry appends exactly one     *)
(* journal entry that holds the text as sent, sets the user's last          *)
(* activity to the time of the message, and is answered by one reply, the   *)
(* acknowledgment; the user's habits and events are as before.              *)
(***************************************************************************)
C19_JournalEntryEffect ==
    \A t \in DOMAIN hm :
        (TextDispatched(t) /\ hm[t].response[1].type = "journal_entry") =>
            /\ JournalNow(t) =
                  Append(JournalBefore(t), [entry |-> hm[t].text[1], timestamp |-> clock])
            /\ find_one(users_collection, hm[t].user_id)[1].last_activity = clock
            /\ HabitsNow(t) = HabitsBefore(t)
            /\ EventsNow(t) = EventsBefore(t)
            /\ Cardinality(Replies(hm[t].out)) = 1
            /\ hm[t].out[1].kind = "reply" /\ hm[t].out[1].what = "journal"

\* a journal entry of a user with habits and an earlier activity is recorded
C19_Witness ==
    \E t \in DOMAIN hm :
        /\ TextDispatched(t)
        /\ hm[t].response[1].type = "journal_entry"
        /\ HabitsBefore(t) # <<>>
        /\ hm[t].user[1].last_activity < clock

(***************************************************************************)
(* C20.  A failure of update_pinned_message neither undoes the write of the *)
(* message being handled nor suppresses its reply.  When a handler of an    *)
(* accepted photo, of a journal entry or of a new habit is about to refresh *)
(* the summary, or has ended with the error of the refresh, its write is in *)
(* the ledger and its reply is the first outbound message.                  *)
(***************************************************************************)
\* the handler is at the call of update_pinned_message or was ended by it
AtOrPastRefresh(t) ==
    \/ hm[t].pc = "pin"
    \/ hm[t].pc = "done" /\ hm[t].raised = "TelegramError"

C20_RefreshFailureKeepsWriteAndReply ==
    \A t \in DOMAIN hm :
        (hm[t].cmd = "handle_message" /\ AtOrPastRefresh(t)) =>
            /\ PhotoWritten(t) =>
                  /\ EventsNow(t) = Append(EventsBefore(t),
                                           PhotoEvent(hm[t].response[1], hm[t].score, clock))
                  /\ hm[t].out # <<>>
                  /\ hm[t].out[1].kind = "reply" /\ hm[t].out[1].what = "evidence"
            /\ (TextDispatched(t) /\ hm[t].response[1].type = "journal_entry") =>
                  /\ JournalNow(t) = Append(JournalBefore(t),
                                            [entry |-> hm[t].text[1], timestamp |-> clock])
                  /\ hm[t].out # <<>>
                  /\ hm[t].out[1].kind = "reply" /\ hm[t].out[1].what = "journal"
            /\ (TextDispatched(t) /\ hm[t].response[1].type = "new_habit") =>
                  /\ \E k \in DOMAIN HabitsNow(t) :
                        /\ HabitsNow(t)[k].name = hm[t].text[1]
                        /\ HabitsNow(t)[k].last_activity = clock
                  /\ hm[t].out # <<>>
                  /\ hm[t].out[1].kind = "reply"
                  /\ hm[t].out[1].what \in {"habit_added", "habit_updated"}

\* the refresh of an accepted photo has failed at the send
C20_Witness ==
    \E t \in DOMAIN hm :
        /\ PhotoWritten(t)
        /\ hm[t].pc = "done" /\ hm[t].raised = "TelegramError"
        /\ Len(hm[t].out) = 1

(***************************************************************************)
(* C21.  With messages handled one after the other (photos accepted or      *)
(* rejected, journal entries, new habits, chat messages), progress requests *)
(* and review cycles in any order, the points of a user's habits add up to  *)
(* the scores of the user's events, and the total of every summary a        *)
(* handler has sent is that sum of scores.                                  *)
(***************************************************************************)
C21_TotalPointsAreTotalScores ==
    /\ \A i \in DOMAIN users_collection :
          SumPoints(users_collection[i].habits) = SumScores(users_collection[i].events)
    /\ \A t \in DOMAIN hm :
          \A k \in DOMAIN hm[t].out :
              hm[t].out[k].kind = "summary" =>
                  hm[t].out[k].total = SumScores(EventsNow(t))

\* a second accepted photo has been handled to the end, its summary pinned,
\* on a ledger of several habits whose scores do not cancel
C21_Witness ==
    \E t \in DOMAIN hm :
        /\ PhotoWritten(t)
        /\ hm[t].pc = "done" /\ hm[t].raised = "none"
        /\ Len(EventsNow(t)) >= 2
        /\ Len(HabitsNow(t)) >= 2
        /\ SumScores(EventsNow(t)) # 0
====
